---- MODULE Spec2Model ----
(***************************************************************************)
(* Rovo MCP gateway (server.js): static bearer gate in front of a spawned  *)
(* mcp-remote child, login-URL capture from the child's output, and the    *)
(* fatal-on-child-exit coupling.                                            *)
(*                                                                         *)
(* JavaScript strings are TLA+ strings.  JavaScript `undefined` and `null` *)
(* are the two reserved values Undefined and Null, which no string the     *)
(* program handles can equal.                                              *)
(***************************************************************************)
EXTENDS Integers, Sequences, FiniteSets, TLC

VARIABLES
    build,                \* which server.js of the repository is running
    env,                  \* process.env, read once at startup
    pc,                   \* position of the gateway process
    STATIC_BEARER_TOKEN,  \* credential read at startup
    ROVO_MCP_URL,         \* upstream endpoint passed to mcp-remote
    spawnCount,           \* number of calls of spawn()
    child,                \* state of the child process
    childExit,            \* the child's "exit" event, once emitted
    gwStdout, gwStderr,   \* what the gateway wrote on its own stdout / stderr
    latestLoginUrl,       \* the Login-Link Record: URL ...
    latestLoginUrlSeenAt, \* ... and capture timestamp
    clock,                \* wall clock read by new Date(); it advances between callbacks
    processed,            \* history: the "data" events handled, in callback order
    lastReq,              \* history: the last inbound request handled
    lastResp,             \* history: the response it got
    exitStatus,           \* exit status of the gateway process, once it has ended
    listeners,            \* the child events that have a handler attached
    pipeOut, pipeErr,     \* pipes on their own: chunks written, not yet delivered
    written,              \* pipes on their own: history of the child's writes
    input,                \* scraper on its own: the argument of extractUrls
    results               \* scraper on its own: what successive calls returned

vars == <<build, env, pc, STATIC_BEARER_TOKEN, ROVO_MCP_URL, spawnCount, child,
          childExit, gwStdout, gwStderr, latestLoginUrl, latestLoginUrlSeenAt, clock, processed, lastReq,
          lastResp, exitStatus, listeners, pipeOut, pipeErr, written, input,
          results>>

scraperVars == <<input, results>>

pipeVars == <<pipeOut, pipeErr, written>>

(***************************************************************************)
(* JavaScript values                                                       *)
(***************************************************************************)
Undefined == "<undefined>"
Null == "<null>"

\* !v for a string-or-null value
Falsy(v)  == v = Undefined \/ v = Null \/ v = ""

\* a || b
OrElse(a, b) == IF Falsy(a) THEN b ELSE a

CharAt(s, i) == SubSeq(s, i, i)

\* String.prototype.startsWith
StartsWith(s, p) == Len(s) >= Len(p) /\ SubSeq(s, 1, Len(p)) = p

Last(s) == s[Len(s)]

(***************************************************************************)
(* Bounds                                                                  *)
(***************************************************************************)
MaxChunks == 2      \* "data" events delivered in one run

(***************************************************************************)
(* Inputs                                                                  *)
(***************************************************************************)
Token == "s3cret"

\* process.env at startup: one complete environment, and environments with
\* one setting missing, empty or malformed
FullEnv ==
    [PUBLIC_BASE_URL     |-> "https://gw.example",
     STATIC_BEARER_TOKEN |-> Token,
     ROVO_MCP_URL        |-> "https://mcp.example/v1/mcp",
     ROVO_MCP_SSE_URL    |-> Undefined]

Envs ==
    { FullEnv,
      [FullEnv EXCEPT !.PUBLIC_BASE_URL = Undefined],
      [FullEnv EXCEPT !.PUBLIC_BASE_URL = ""],
      [FullEnv EXCEPT !.PUBLIC_BASE_URL = "gw.example"],
      [FullEnv EXCEPT !.STATIC_BEARER_TOKEN = Undefined],
      [FullEnv EXCEPT !.STATIC_BEARER_TOKEN = ""],
      [FullEnv EXCEPT !.ROVO_MCP_URL = ""] }

Methods == {"GET", "POST"}

\* request targets: path plus optional query string
Urls ==
    { "/healthz", "/healthz/", "/login-link", "/mcp", "/", "/__version",
      "/oauth/callback", "/auth/x", "/callback", "/callback/", "/oauth",
      "/login-link?next=/oauth/" }

\* Authorization header values; Undefined is "header absent"
AuthHeaders ==
    { Undefined,
      "Bearer " \o Token,
      "bearer " \o Token,
      "Bearer " \o Token \o " ",
      "Bearer other" }

Requests == [method : Methods, url : Urls, auth : AuthHeaders]

Req(m, u, a) == [method |-> m, url |-> u, auth |-> a]

\* the requests that arrive in a run
Probes ==
    { Req("GET", "/login-link", "Bearer " \o Token),
      Req("GET", "/login-link", Undefined),
      Req("GET", "/healthz", Undefined),
      Req("GET", "/healthz/", Undefined),
      Req("POST", "/healthz", Undefined),
      Req("POST", "/mcp", "Bearer " \o Token),
      Req("POST", "/mcp", "Bearer other"),
      Req("GET", "/oauth/callback", Undefined) }

\* the (code, signal) pairs a child "exit" event can carry: code is null when
\* the child was killed by a signal
ExitCodes == {0, 3}
ExitEvents ==
    {[codeIsNull |-> FALSE, code |-> c] : c \in ExitCodes}
        \cup {[codeIsNull |-> TRUE, code |-> 0]}

\* chunks of child output
Chunks ==
    { "starting up\n",
      "Login at https://id.example/auth?state=1 please",
      "see https://a.example/x and https://b.example/y?q=1" }

(***************************************************************************)
(* Configuration (server.js 22-37)                                         *)
(***************************************************************************)
\* requireEnv(name) throws
requireEnvThrows(e, name) == Falsy(e[name])

\* requireEnv(name) returns
requireEnv(e, name) == e[name]

DefaultMcpUrl == "https://mcp.atlassian.com/v1/mcp"

\* mutant: the credential is read without requireEnv
ConfigThrows_server_tokenOptional(e) == requireEnvThrows(e, "PUBLIC_BASE_URL")

\* server.js: two required settings, the endpoint has a legacy name and a default
ConfigThrows_server(e) ==
    \/ requireEnvThrows(e, "PUBLIC_BASE_URL")
    \/ requireEnvThrows(e, "STATIC_BEARER_TOKEN")

McpUrl_server(e) ==
    OrElse(e.ROVO_MCP_URL, OrElse(e.ROVO_MCP_SSE_URL, DefaultMcpUrl))

\* the two older server.js files: the endpoint is required under its legacy name
ConfigThrows_sse(e) ==
    \/ requireEnvThrows(e, "PUBLIC_BASE_URL")
    \/ requireEnvThrows(e, "STATIC_BEARER_TOKEN")
    \/ requireEnvThrows(e, "ROVO_MCP_SSE_URL")

McpUrl_sse(e) == requireEnv(e, "ROVO_MCP_SSE_URL")

\* the /__version server.js: the endpoint has a default and no legacy name
ConfigThrows_version(e) ==
    \/ requireEnvThrows(e, "PUBLIC_BASE_URL")
    \/ requireEnvThrows(e, "STATIC_BEARER_TOKEN")

McpUrl_version(e) == OrElse(e.ROVO_MCP_URL, DefaultMcpUrl)

Builds == {"server", "sse_gate_first", "sse", "version"}

ConfigThrows(b, e) ==
    CASE b = "server"         -> ConfigThrows_server(e)
      [] b = "sse_gate_first" -> ConfigThrows_sse(e)
      [] b = "sse"            -> ConfigThrows_sse(e)
      [] b = "version"        -> ConfigThrows_version(e)

McpUrl(b, e) ==
    CASE b = "server"         -> McpUrl_server(e)
      [] b = "sse_gate_first" -> McpUrl_sse(e)
      [] b = "sse"            -> McpUrl_sse(e)
      [] b = "version"        -> McpUrl_version(e)

\* new URL(s) throws unless s is an absolute URL
UrlThrows(s) ==
    ~ \/ (StartsWith(s, "https://") /\ Len(s) > Len("https://"))
      \/ (StartsWith(s, "http://") /\ Len(s) > Len("http://"))

(***************************************************************************)
(* Path classifier (server.js 52-64)                                       *)
(***************************************************************************)
OPEN_PATHS_EXACT == {"/oauth/callback", "/auth/callback", "/callback"}

\* mutant: the prefixes are tested without their closing slash
isOpenPath_loosePrefix(path) ==
    IF path \in OPEN_PATHS_EXACT THEN TRUE
    ELSE IF StartsWith(path, "/oauth") THEN TRUE
    ELSE IF StartsWith(path, "/auth") THEN TRUE
    ELSE FALSE

isOpenPath(path) ==
    IF path \in OPEN_PATHS_EXACT THEN TRUE
    ELSE IF StartsWith(path, "/oauth/") THEN TRUE
    ELSE IF StartsWith(path, "/auth/") THEN TRUE
    ELSE FALSE

\* older file: /healthz is in the exact set
OPEN_PATHS_EXACT_gate_first ==
    {"/healthz", "/oauth/callback", "/auth/callback", "/callback"}

isOpenPath_gate_first(path) ==
    IF path \in OPEN_PATHS_EXACT_gate_first THEN TRUE
    ELSE IF StartsWith(path, "/oauth/") THEN TRUE
    ELSE IF StartsWith(path, "/auth/") THEN TRUE
    ELSE FALSE

\* /__version file: the classifier also lists /healthz and /__version
isOpenPath_version(path) ==
    IF path \in OPEN_PATHS_EXACT THEN TRUE
    ELSE IF StartsWith(path, "/oauth/") THEN TRUE
    ELSE IF StartsWith(path, "/auth/") THEN TRUE
    ELSE IF path = "/healthz" THEN TRUE
    ELSE IF path = "/__version" THEN TRUE
    ELSE FALSE

IsOpen(b, path) ==
    CASE b = "server"         -> isOpenPath(path)
      [] b = "sse"            -> isOpenPath(path)
      [] b = "sse_gate_first" -> isOpenPath_gate_first(path)
      [] b = "version"        -> isOpenPath_version(path)

(***************************************************************************)
(* Request routing: the middleware stack in registration order             *)
(***************************************************************************)
\* req.path: the request target up to the query string
RECURSIVE IndexOfQuery(_, _)
IndexOfQuery(url, i) ==
    IF i > Len(url) THEN 0
    ELSE IF CharAt(url, i) = "?" THEN i
    ELSE IndexOfQuery(url, i + 1)

ReqPath(url) ==
    LET q == IndexOfQuery(url, 1)
    IN  IF q = 0 THEN url ELSE SubSeq(url, 1, q - 1)

\* a path without its one optional trailing slash (routing is not strict)
StripSlash(path) ==
    IF Len(path) >= 1 /\ CharAt(path, Len(path)) = "/"
    THEN SubSeq(path, 1, Len(path) - 1)
    ELSE path

\* app.get(route, ...): GET and HEAD, the whole path
GetMatches(route, req) ==
    /\ req.method \in {"GET", "HEAD"}
    /\ StripSlash(ReqPath(req.url)) = StripSlash(route)

\* app.all(route, ...): any method, the whole path
AllMatches(route, req) == StripSlash(ReqPath(req.url)) = StripSlash(route)

\* app.use(mount, ...): any method, the path at or under the mount point
UseMatches(mount, req) ==
    \/ mount = "/"
    \/ ReqPath(req.url) = mount
    \/ StartsWith(ReqPath(req.url), mount \o "/")

LayerMatches(layer, req) ==
    CASE layer.kind = "get" -> GetMatches(layer.path, req)
      [] layer.kind = "all" -> AllMatches(layer.path, req)
      [] layer.kind = "use" -> UseMatches(layer.path, req)

Layer(k, p, h) == [kind |-> k, path |-> p, handler |-> h]

\* mutant: the health routes are registered after the gate
Stack_server_gate_first ==
    << Layer("use", "/", "gate"),
       Layer("get", "/healthz", "health"),
       Layer("get", "/healthz/", "health"),
       Layer("get", "/login-link", "loginLink"),
       Layer("use", "/mcp", "proxy"),
       Layer("use", "/", "proxy") >>

Stack_server ==
    << Layer("get", "/healthz", "health"),
       Layer("get", "/healthz/", "health"),
       Layer("use", "/", "gate"),
       Layer("get", "/login-link", "loginLink"),
       Layer("use", "/mcp", "proxy"),
       Layer("use", "/", "proxy") >>

Stack_sse_gate_first ==
    << Layer("use", "/", "gate"),
       Layer("get", "/healthz", "health"),
       Layer("get", "/login-link", "loginLink"),
       Layer("use", "/sse", "proxy"),
       Layer("use", "/", "proxy") >>

Stack_sse ==
    << Layer("get", "/healthz", "health"),
       Layer("get", "/healthz/", "health"),
       Layer("use", "/", "gate"),
       Layer("get", "/login-link", "loginLink"),
       Layer("use", "/sse", "proxy"),
       Layer("use", "/", "proxy") >>

Stack_version ==
    << Layer("get", "/healthz", "health"),
       Layer("get", "/__version", "version"),
       Layer("use", "/", "gate"),
       Layer("get", "/login-link", "loginLink"),
       Layer("all", "/mcp", "marker"),
       Layer("use", "/mcp", "proxy") >>

Stack(b) ==
    CASE b = "server"         -> Stack_server
      [] b = "sse_gate_first" -> Stack_sse_gate_first
      [] b = "sse"            -> Stack_sse
      [] b = "version"        -> Stack_version

\* a response: who produced it, the status and JSON body the gateway set
\* (none of its own when the request was handed to the proxy), and the
\* handlers the request went through
Response(h, st, fw, b) ==
    [by |-> h, status |-> st, forwarded |-> fw, body |-> b, chain |-> <<h>>]

NoResponse == Response("none", 0, FALSE, <<>>)

\* res.json({ ok: true })
HealthResponse == Response("health", 200, FALSE, [ok |-> TRUE])

\* res.status(401).json({ error: "Unauthorized" })
Unauthorized == Response("gate", 401, FALSE, [error |-> "Unauthorized"])

\* the framework's answer when no layer handles the request
NotRouted == Response("express", 404, FALSE, <<>>)

\* createProxyMiddleware(...): the request goes to the child's port
Forwarded == Response("proxy", 0, TRUE, <<>>)

VersionResponse(url) ==
    Response("version", 200, FALSE, [ok |-> TRUE, mcp_upstream |-> url])

\* mutant: the header only has to begin with the expected value
GatePasses_prefix(b, tok, req) ==
    IF IsOpen(b, ReqPath(req.url)) THEN TRUE
    ELSE StartsWith(OrElse(req.auth, ""), "Bearer " \o tok)

\* the auth gate lets the request through
GatePasses(b, tok, req) ==
    IF IsOpen(b, ReqPath(req.url)) THEN TRUE
    ELSE LET auth     == OrElse(req.auth, "")
             expected == "Bearer " \o tok
         IN  ~ (auth # expected)

\* mutant: the record is returned without the null check
LoginLink_unchecked(url, seenAt) ==
    Response("loginLink", 200, FALSE, [login_url |-> url, seen_at |-> seenAt])

\* app.get("/login-link")
LoginLink(url, seenAt) ==
    IF Falsy(url)
    THEN Response("loginLink", 404, FALSE,
                  [error |-> "No login link captured yet.",
                   hint  |-> "Trigger an MCP connection attempt, then retry /login-link."])
    ELSE Response("loginLink", 200, FALSE,
                  [login_url |-> url, seen_at |-> seenAt])

Via(h, resp) == [resp EXCEPT !.chain = <<h>> \o @]

RECURSIVE Walk(_, _, _, _)
Walk(b, stack, req, i) ==
    IF i > Len(stack) THEN NotRouted
    ELSE IF ~ LayerMatches(stack[i], req) THEN Walk(b, stack, req, i + 1)
    ELSE LET h == stack[i].handler
         IN  CASE h = "health"    -> HealthResponse
               [] h = "version"   -> VersionResponse(ROVO_MCP_URL)
               [] h = "gate"      ->
                    IF GatePasses(b, STATIC_BEARER_TOKEN, req)
                    THEN Via(h, Walk(b, stack, req, i + 1))
                    ELSE Unauthorized
               [] h = "loginLink" ->
                    LoginLink(latestLoginUrl, latestLoginUrlSeenAt)
               [] h = "marker"    -> Via(h, Walk(b, stack, req, i + 1))
               [] h = "proxy"     -> Forwarded

\* the response of the running gateway to one request
Handle(req) == Walk(build, Stack(build), req, 1)

(***************************************************************************)
(* URL scraper (server.js 84-88)                                           *)
(***************************************************************************)
\* \s
Whitespace == {" ", "\t", "\n", "\r"}

\* mutant: the class forgets the closing parenthesis
UrlChar_forgetsParen(c) == c \notin Whitespace /\ c \notin {"\"", "'", "]"}

\* the characters [^\s"')\]] accepts
UrlChar(c) == c \notin Whitespace /\ c \notin {"\"", "'", ")", "]"}

\* length of the scheme https?:\/\/ at position i, 0 if there is none
SchemeAt(text, i) ==
    IF i + 7 <= Len(text) /\ SubSeq(text, i, i + 7) = "https://" THEN 8
    ELSE IF i + 6 <= Len(text) /\ SubSeq(text, i, i + 6) = "http://" THEN 7
    ELSE 0

\* the greedy run [^\s"')\]]+ : last position of the run that starts at i
RECURSIVE RunEnd(_, _)
RunEnd(text, i) ==
    IF i + 1 <= Len(text) /\ UrlChar(CharAt(text, i + 1))
    THEN RunEnd(text, i + 1)
    ELSE i

\* text.match(re) with the g flag: leftmost matches, each scan resuming
\* right after the previous match
RECURSIVE MatchFrom(_, _)
MatchFrom(text, i) ==
    IF i > Len(text) THEN <<>>
    ELSE LET n == SchemeAt(text, i)
         IN  IF n > 0 /\ i + n <= Len(text) /\ UrlChar(CharAt(text, i + n))
             THEN LET e == RunEnd(text, i + n)
                  IN  <<SubSeq(text, i, e)>> \o MatchFrom(text, e + 1)
             ELSE MatchFrom(text, i + 1)

\* mutant: the text is scanned together with the chunk processed before it
extractUrls_buffered(text) ==
    LET held == IF processed = <<>> THEN "" ELSE Last(processed).chunk
    IN  MatchFrom(held \o text, 1)

extractUrls(text) == MatchFrom(text, 1)

(***************************************************************************)
(* Login-link capture (server.js 81-82, 110-116)                           *)
(***************************************************************************)
\* new Date(now).toISOString()
toISOString(now) == "2026-01-01T00:00:0" \o ToString(now) \o ".000Z"

\* mutant: the first match is kept instead of the last
capture_first(url, seenAt, chunk, now) ==
    LET urls == extractUrls(chunk)
    IN  IF Len(urls) # 0
        THEN [url |-> urls[1], seenAt |-> toISOString(now)]
        ELSE [url |-> url, seenAt |-> seenAt]

\* capture(chunk): the Login-Link Record after the call
capture(url, seenAt, chunk, now) ==
    LET urls == extractUrls(chunk)
    IN  IF Len(urls) # 0
        THEN [url |-> urls[Len(urls)], seenAt |-> toISOString(now)]
        ELSE [url |-> url, seenAt |-> seenAt]

\* process.exit(code ?? 1)
ExitStatusFor(ev) == IF ev.codeIsNull THEN 1 ELSE ev.code

\* exit status of a Node process that ends on an uncaught exception
UncaughtExceptionStatus == 1

(***************************************************************************)
(* The gateway process                                                     *)
(***************************************************************************)
InitCommon ==
    /\ pc = "config"
    /\ STATIC_BEARER_TOKEN = Undefined
    /\ ROVO_MCP_URL = Undefined
    /\ spawnCount = 0
    /\ child = "none"
    /\ childExit = <<>>
    /\ gwStdout = <<>> /\ gwStderr = <<>>
    /\ latestLoginUrl = Null
    /\ latestLoginUrlSeenAt = Null
    /\ clock = 0
    /\ processed = <<>>
    /\ lastReq = <<>>
    /\ lastResp = NoResponse
    /\ exitStatus = <<>>
    /\ listeners = {}
    /\ pipeOut = <<>> /\ pipeErr = <<>>
    /\ written = <<>>

Init ==
    /\ build = "server"
    /\ env \in Envs
    /\ InitCommon
    /\ input = ""
    /\ results = <<>>

\* the process ends: nothing of it runs any more
Terminate(state, status) ==
    /\ pc' = state
    /\ exitStatus' = <<status>>

\* lines 28-37: read the settings; a missing one throws at module top level
Configure ==
    /\ pc = "config"
    /\ IF ConfigThrows(build, env)
       THEN /\ Terminate("crashed", UncaughtExceptionStatus)
            /\ UNCHANGED <<STATIC_BEARER_TOKEN, ROVO_MCP_URL>>
       ELSE /\ STATIC_BEARER_TOKEN' = requireEnv(env, "STATIC_BEARER_TOKEN")
            /\ ROVO_MCP_URL' = McpUrl(build, env)
            /\ pc' = "spawn"
            /\ UNCHANGED exitStatus
    /\ UNCHANGED <<build, env, spawnCount, child, childExit, gwStdout,
                   gwStderr, latestLoginUrl, latestLoginUrlSeenAt, clock,
                   processed, lastReq, lastResp>>
    /\ UNCHANGED <<listeners, pipeVars>>
    /\ UNCHANGED scraperVars

\* mutant: no handler for the child's "exit" event
Attached_noExit == {"stdout", "stderr"}

\* lines 118-131: the handlers startMcpRemote() attaches right after spawn()
Attached == {"stdout", "stderr", "exit"}

\* mutant: a failed spawn is tried again
AfterSpawn_retry(started) == IF started THEN "listen" ELSE "spawn"

\* line 136: startMcpRemote() is called once; whatever the spawn did, module
\* top level goes on to the remaining routes and app.listen()
AfterSpawn(started) == "listen"

\* lines 90-136: startMcpRemote(), called once from module top level.  The
\* spawn either starts the child or fails (the failure is reported later,
\* as an "error" event on the child)
StartMcpRemote ==
    /\ pc = "spawn"
    /\ IF UrlThrows(env.PUBLIC_BASE_URL)
       THEN /\ Terminate("crashed", UncaughtExceptionStatus)
            /\ UNCHANGED <<spawnCount, child, listeners>>
       ELSE /\ \E started \in BOOLEAN :
                  /\ child' = IF started THEN "running" ELSE "failed"
                  /\ pc' = AfterSpawn(started)
            /\ spawnCount' = spawnCount + 1
            /\ listeners' = Attached
            /\ UNCHANGED exitStatus
    /\ UNCHANGED <<build, env, STATIC_BEARER_TOKEN, ROVO_MCP_URL, childExit,
                   gwStdout, gwStderr, latestLoginUrl, latestLoginUrlSeenAt,
                   clock, processed, lastReq, lastResp>>
    /\ UNCHANGED pipeVars
    /\ UNCHANGED scraperVars

\* lines 176-182: app.listen(); module top level is done, the event loop runs
Listen ==
    /\ pc = "listen"
    /\ pc' = "running"
    /\ UNCHANGED <<build, env, STATIC_BEARER_TOKEN, ROVO_MCP_URL, spawnCount,
                   child, childExit, gwStdout, gwStderr, latestLoginUrl,
                   latestLoginUrlSeenAt, clock, processed, lastReq, lastResp,
                   exitStatus>>
    /\ UNCHANGED <<listeners, pipeVars>>
    /\ UNCHANGED scraperVars

\* the child's "error" event has no listener: it is thrown, before any I/O
\* callback of the event loop runs
SpawnError ==
    /\ pc = "running"
    /\ child = "failed"
    /\ Terminate("crashed", UncaughtExceptionStatus)
    /\ UNCHANGED <<build, env, STATIC_BEARER_TOKEN, ROVO_MCP_URL, spawnCount,
                   child, childExit, gwStdout, gwStderr, latestLoginUrl,
                   latestLoginUrlSeenAt, clock, processed, lastReq, lastResp>>
    /\ UNCHANGED <<listeners, pipeVars>>
    /\ UNCHANGED scraperVars

\* the gateway process is alive and its event loop dispatches callbacks
Serving == pc = "running" /\ child # "failed"

\* environment: the child terminates, with an exit code or by a signal
ChildExits(ev) ==
    /\ pc \in {"listen", "running"}
    /\ child = "running"
    /\ child' = "exited"
    /\ childExit' = <<ev>>
    /\ UNCHANGED <<build, env, pc, STATIC_BEARER_TOKEN, ROVO_MCP_URL,
                   spawnCount, gwStdout, gwStderr, latestLoginUrl,
                   latestLoginUrlSeenAt, clock, processed, lastReq, lastResp,
                   exitStatus>>
    /\ UNCHANGED <<listeners, pipeVars>>
    /\ UNCHANGED scraperVars

\* mutant: the chunk is logged as a line of its own, as console.log does
Write_consoleLog(out, chunk) == Append(out, chunk \o "\n")

\* process.stdout.write(chunk) / process.stderr.write(chunk)
Write(out, chunk) == Append(out, chunk)

\* mutant: the timestamp is written by the first capture only
Capture_staleStamp(stream, chunk, now) ==
    LET rec == capture(latestLoginUrl, latestLoginUrlSeenAt, chunk, now)
    IN  /\ latestLoginUrl' = rec.url
        /\ latestLoginUrlSeenAt' =
              IF latestLoginUrlSeenAt = Null THEN rec.seenAt
              ELSE latestLoginUrlSeenAt
        /\ clock' = now
        /\ processed' = Append(processed, [stream |-> stream, chunk |-> chunk])

\* the part both "data" handlers share: capture(chunk) at wall-clock time now
Capture(stream, chunk, now) ==
    LET rec == capture(latestLoginUrl, latestLoginUrlSeenAt, chunk, now)
    IN  /\ latestLoginUrl' = rec.url
        /\ latestLoginUrlSeenAt' = rec.seenAt
        /\ clock' = now
        /\ processed' = Append(processed, [stream |-> stream, chunk |-> chunk])

\* mutant: every stdout chunk stamps the record, a URL in it or not
StdoutHandler_restamps(chunk) ==
    /\ Serving
    /\ "stdout" \in listeners
    /\ Len(processed) < MaxChunks
    /\ gwStdout' = Write(gwStdout, chunk)
    /\ latestLoginUrl' =
          capture(latestLoginUrl, latestLoginUrlSeenAt, chunk, clock + 1).url
    /\ latestLoginUrlSeenAt' = toISOString(clock + 1)
    /\ clock' = clock + 1
    /\ processed' = Append(processed, [stream |-> "stdout", chunk |-> chunk])
    /\ UNCHANGED <<build, env, pc, STATIC_BEARER_TOKEN, ROVO_MCP_URL,
                   spawnCount, child, childExit, gwStderr, lastReq, lastResp,
                   exitStatus, listeners>>
    /\ UNCHANGED scraperVars

\* lines 118-121: child.stdout.on("data"); output still in the pipe is
\* delivered also after the child has ended
StdoutHandler(chunk) ==
    /\ Serving
    /\ "stdout" \in listeners
    /\ Len(processed) < MaxChunks
    /\ gwStdout' = Write(gwStdout, chunk)
    /\ Capture("stdout", chunk, clock + 1)
    /\ UNCHANGED <<build, env, pc, STATIC_BEARER_TOKEN, ROVO_MCP_URL,
                   spawnCount, child, childExit, gwStderr, lastReq, lastResp,
                   exitStatus, listeners>>
    /\ UNCHANGED scraperVars

\* a "data" event on stdout, its chunk an input
OnStdoutData(chunk) == StdoutHandler(chunk) /\ UNCHANGED pipeVars


\* mutant: a stderr chunk without a URL clears the record
StderrHandler_clearsOnNoise(chunk) ==
    /\ Serving
    /\ "stderr" \in listeners
    /\ Len(processed) < MaxChunks
    /\ gwStderr' = Write(gwStderr, chunk)
    /\ IF Len(extractUrls(chunk)) = 0
       THEN /\ latestLoginUrl' = Null
            /\ latestLoginUrlSeenAt' = Null
            /\ clock' = clock + 1
            /\ processed' = Append(processed,
                                   [stream |-> "stderr", chunk |-> chunk])
       ELSE Capture("stderr", chunk, clock + 1)
    /\ UNCHANGED <<build, env, pc, STATIC_BEARER_TOKEN, ROVO_MCP_URL,
                   spawnCount, child, childExit, gwStdout, lastReq, lastResp,
                   exitStatus, listeners>>
    /\ UNCHANGED scraperVars

\* lines 123-126: child.stderr.on("data")
StderrHandler(chunk) ==
    /\ Serving
    /\ "stderr" \in listeners
    /\ Len(processed) < MaxChunks
    /\ gwStderr' = Write(gwStderr, chunk)
    /\ Capture("stderr", chunk, clock + 1)
    /\ UNCHANGED <<build, env, pc, STATIC_BEARER_TOKEN, ROVO_MCP_URL,
                   spawnCount, child, childExit, gwStdout, lastReq, lastResp,
                   exitStatus, listeners>>
    /\ UNCHANGED scraperVars

\* a "data" event on stderr, its chunk an input
OnStderrData(chunk) == StderrHandler(chunk) /\ UNCHANGED pipeVars

\* mutant: the handler logs the exit code and returns
ProcessExit_logOnly(status) == UNCHANGED <<pc, exitStatus>>

\* line 130: process.exit(status)
ProcessExit(status) == Terminate("exited", status)

\* lines 128-131: child.on("exit"); the event is delivered once
OnExit ==
    /\ Serving
    /\ "exit" \in listeners
    /\ child = "exited"
    /\ child' = "reaped"
    /\ ProcessExit(ExitStatusFor(childExit[1]))
    /\ UNCHANGED <<build, env, STATIC_BEARER_TOKEN, ROVO_MCP_URL, spawnCount,
                   childExit, gwStdout, gwStderr, latestLoginUrl,
                   latestLoginUrlSeenAt, clock, processed, lastReq, lastResp>>
    /\ UNCHANGED <<listeners, pipeVars>>
    /\ UNCHANGED scraperVars

\* mutant: a rejected request drops the record
Request_resets(req) ==
    /\ Serving
    /\ lastReq' = <<req>>
    /\ lastResp' = Handle(req)
    /\ IF Handle(req).status = 401
       THEN latestLoginUrl' = Null /\ latestLoginUrlSeenAt' = Null
       ELSE UNCHANGED <<latestLoginUrl, latestLoginUrlSeenAt>>
    /\ UNCHANGED <<build, env, pc, STATIC_BEARER_TOKEN, ROVO_MCP_URL,
                   spawnCount, child, childExit, gwStdout, gwStderr, clock,
                   processed, exitStatus>>
    /\ UNCHANGED <<listeners, pipeVars>>
    /\ UNCHANGED scraperVars

\* one inbound request goes through the middleware stack
Request(req) ==
    /\ Serving
    /\ lastReq' = <<req>>
    /\ lastResp' = Handle(req)
    /\ UNCHANGED <<build, env, pc, STATIC_BEARER_TOKEN, ROVO_MCP_URL,
                   spawnCount, child, childExit, gwStdout, gwStderr,
                   latestLoginUrl, latestLoginUrlSeenAt, clock, processed,
                   exitStatus>>
    /\ UNCHANGED <<listeners, pipeVars>>
    /\ UNCHANGED scraperVars

Next ==
    \/ Configure
    \/ StartMcpRemote
    \/ Listen
    \/ SpawnError
    \/ \E ev \in ExitEvents : ChildExits(ev)
    \/ \E chunk \in Chunks : OnStdoutData(chunk)
    \/ \E chunk \in Chunks : OnStderrData(chunk)
    \/ OnExit
    \/ \E req \in Probes : Request(req)

Spec == Init /\ [][Next]_vars

\* any of the repository's server.js files, also with the endpoint set under
\* its legacy name
LegacyEnv ==
    [FullEnv EXCEPT !.ROVO_MCP_URL = Undefined,
                    !.ROVO_MCP_SSE_URL = "https://mcp.example/v1/sse"]

InitBuilds ==
    /\ build \in Builds
    /\ env \in {FullEnv, LegacyEnv}
    /\ InitCommon
    /\ input = ""
    /\ results = <<>>

SpecBuilds == InitBuilds /\ [][Next]_vars

\* the event loop runs a callback that stays ready: module top level reaches
\* app.listen(), and a pending "exit" event gets its handler called
FairSpec == Spec /\ WF_vars(Listen) /\ WF_vars(OnExit)

(***************************************************************************)
(* The child's two pipes on their own: the child writes chunks to stdout   *)
(* and stderr (stdio "pipe", server.js 102-105) and the event loop         *)
(* delivers each pipe's chunks to its "data" handler in the order written  *)
(***************************************************************************)
Streams == {"stdout", "stderr"}

\* chunks of child output, with a login URL that arrives in two pieces
StreamChunks ==
    Chunks \cup {"Login at https://id.exa", "mple/auth?state=1 please"}

\* environment: the child writes one chunk to one of its streams
ChildWrite(stream, chunk) ==
    /\ pc \in {"listen", "running"}
    /\ child = "running"
    /\ Len(written) < MaxChunks
    /\ written' = Append(written, [stream |-> stream, chunk |-> chunk])
    /\ IF stream = "stdout"
       THEN pipeOut' = Append(pipeOut, chunk) /\ UNCHANGED pipeErr
       ELSE pipeErr' = Append(pipeErr, chunk) /\ UNCHANGED pipeOut
    /\ UNCHANGED <<build, env, pc, STATIC_BEARER_TOKEN, ROVO_MCP_URL,
                   spawnCount, child, childExit, gwStdout, gwStderr,
                   latestLoginUrl, latestLoginUrlSeenAt, clock, processed,
                   lastReq, lastResp, exitStatus, listeners>>
    /\ UNCHANGED scraperVars

\* mutant: the newest chunk in the stdout pipe is delivered first
DeliverStdout_newestFirst ==
    /\ pipeOut # <<>>
    /\ StdoutHandler(Last(pipeOut))
    /\ pipeOut' = SubSeq(pipeOut, 1, Len(pipeOut) - 1)
    /\ UNCHANGED <<pipeErr, written>>

\* the stdout "data" event for the chunk at the head of the stdout pipe
DeliverStdout ==
    /\ pipeOut # <<>>
    /\ StdoutHandler(Head(pipeOut))
    /\ pipeOut' = Tail(pipeOut)
    /\ UNCHANGED <<pipeErr, written>>

\* the stderr "data" event for the chunk at the head of the stderr pipe
DeliverStderr ==
    /\ pipeErr # <<>>
    /\ StderrHandler(Head(pipeErr))
    /\ pipeErr' = Tail(pipeErr)
    /\ UNCHANGED <<pipeOut, written>>

NextStreams ==
    \/ Configure
    \/ StartMcpRemote
    \/ Listen
    \/ SpawnError
    \/ \E stream \in Streams, chunk \in StreamChunks : ChildWrite(stream, chunk)
    \/ DeliverStdout
    \/ DeliverStderr
    \/ \E ev \in ExitEvents : ChildExits(ev)
    \/ OnExit

SpecStreams == Init /\ [][NextStreams]_vars

(***************************************************************************)
(* The scraper on its own: extractUrls applied to bounded texts            *)
(***************************************************************************)
MaxTokens == 3      \* pieces a text is built from
MaxCalls  == 2      \* calls of extractUrls on one text

Tokens ==
    { "http://", "https://", "http://a", "https://b/c?q=1", "x",
      " ", "\n", "\"", "'", ")", "]" }

RECURSIVE TextsUpTo(_)
TextsUpTo(n) ==
    IF n = 0 THEN {""}
    ELSE LET shorter == TextsUpTo(n - 1)
         IN  shorter \cup {t \o k : t \in shorter, k \in Tokens}

Texts ==
    TextsUpTo(MaxTokens)
        \cup { "no urls here",
               "see https://a.example/x and https://b.example/y?q=1",
               "Login at https://id.example/auth?state=1 please" }

InitScraper ==
    /\ build = "server"
    /\ env = FullEnv
    /\ InitCommon
    /\ input \in Texts
    /\ results = <<>>

\* one call extractUrls(text)
Extract ==
    /\ Len(results) < MaxCalls
    /\ results' = Append(results, extractUrls(input))
    /\ UNCHANGED <<build, env, pc, STATIC_BEARER_TOKEN, ROVO_MCP_URL,
                   spawnCount, child, childExit, gwStdout, gwStderr,
                   latestLoginUrl, latestLoginUrlSeenAt, clock, processed,
                   lastReq, lastResp, exitStatus, listeners, pipeVars, input>>

NextScraper == Extract

SpecScraper == InitScraper /\ [][NextScraper]_vars

(***************************************************************************)
(* The path classifier on its own: the gate's call isOpenPath(req.path)    *)
(* (server.js 68) applied to bounded requests, in each variant of the file *)
(***************************************************************************)
\* request targets around the open set: members, near-misses, query strings
ClassifierUrls ==
    Urls \cup { "/auth/callback", "/oauth/", "/auth", "/oauthx", "/callback/x",
                "/callback?code=1", "/mcp?next=/oauth/callback",
                "/oauth/callback?code=1", "/Callback", "callback" }

ClassifierInputs ==
    [method : Methods, url : ClassifierUrls,
     auth : {Undefined, "Bearer " \o Token}]

InitClassifier ==
    /\ build \in Builds
    /\ env = FullEnv
    /\ InitCommon
    /\ input \in ClassifierInputs
    /\ results = <<>>

\* one call isOpenPath(req.path) for the request in `input`
Classify ==
    /\ Len(results) < MaxCalls
    /\ results' = Append(results, IsOpen(build, ReqPath(input.url)))
    /\ UNCHANGED <<build, env, pc, STATIC_BEARER_TOKEN, ROVO_MCP_URL,
                   spawnCount, child, childExit, gwStdout, gwStderr,
                   latestLoginUrl, latestLoginUrlSeenAt, clock, processed,
                   lastReq, lastResp, exitStatus, listeners, pipeVars, input>>

NextClassifier == Classify

SpecClassifier == InitClassifier /\ [][NextClassifier]_vars

(***************************************************************************)
(* What a text contains, stated without the scanning order of the regex    *)
(***************************************************************************)
\* the characters that end a URL
StopChars == {" ", "\t", "\n", "\r", "\"", "'", ")", "]"}

InUrl(t, k) == CharAt(t, k) \notin StopChars

\* the literal lit stands at position i of t
LiteralAt(t, i, lit) ==
    /\ i + Len(lit) - 1 <= Len(t)
    /\ SubSeq(t, i, i + Len(lit) - 1) = lit

\* a URL can begin at i: a scheme and at least one more URL character
UrlBeginsAt(t, i) ==
    \/ LiteralAt(t, i, "http://")
         /\ i + 7 <= Len(t) /\ InUrl(t, i + 7)
    \/ LiteralAt(t, i, "https://")
         /\ i + 8 <= Len(t) /\ InUrl(t, i + 8)

\* positions i..j lie in one stretch free of stop characters
SameStretch(t, i, j) == \A k \in i..j : InUrl(t, k)

\* where the non-overlapping maximal URLs begin: the leftmost beginning in
\* each stretch
UrlStarts(t) ==
    { i \in 1..Len(t) :
        /\ UrlBeginsAt(t, i)
        /\ ~ \E j \in 1..(i - 1) : UrlBeginsAt(t, j) /\ SameStretch(t, j, i) }

\* where the URL beginning at i ends: the end of its stretch
UrlEnd(t, i) ==
    CHOOSE e \in i..Len(t) :
        /\ SameStretch(t, i, e)
        /\ e = Len(t) \/ ~ InUrl(t, e + 1)

RECURSIVE InOrder(_, _)
InOrder(t, starts) ==
    IF starts = {} THEN <<>>
    ELSE LET i == CHOOSE m \in starts : \A n \in starts : m <= n
         IN  <<SubSeq(t, i, UrlEnd(t, i))>> \o InOrder(t, starts \ {i})

\* the URLs of a text, left to right
UrlsOf(t) == InOrder(t, UrlStarts(t))

ContainsUrl(t) == \E i \in 1..Len(t) : UrlBeginsAt(t, i)

(***************************************************************************)
(* C10  extractUrls(text) returns, left to right, all non-overlapping      *)
(* maximal substrings that begin with http:// or https:// and run on       *)
(* through characters that are neither whitespace nor one of " ' ) ] (at   *)
(* least one such character after the scheme); the empty sequence when     *)
(* there is none; the same result on every call with the same input; and   *)
(* for 'see https://a.example/x and https://b.example/y?q=1' exactly the   *)
(* two URLs of that text.                                                  *)
(***************************************************************************)
C10_ExtractUrls ==
    /\ \A n \in 1..Len(results) : results[n] = UrlsOf(input)
    /\ \A n \in 1..Len(results) : ~ ContainsUrl(input) => results[n] = <<>>
    /\ Len(results) >= 2 => results[2] = results[1]
    /\ ( /\ input = "see https://a.example/x and https://b.example/y?q=1"
         /\ Len(results) >= 1 )
       => results[1] = <<"https://a.example/x", "https://b.example/y?q=1">>
    /\ (input = "no urls here" /\ Len(results) >= 1) => results[1] = <<>>

\* two calls on a text with two URLs, one of them cut short by a delimiter
C10_Witness ==
    /\ input = "https://b/c?q=1)http://a"
    /\ Len(results) = 2
    /\ results[2] = <<"https://b/c?q=1", "http://a">>

(***************************************************************************)
(* The open set as the interface describes it: the health path (with or    *)
(* without its trailing slash), the version path where the running file    *)
(* has one, everything under /oauth/ and /auth/, and exactly /callback     *)
(***************************************************************************)
HealthPaths == {"/healthz", "/healthz/"}

InOpenSet(b, path) ==
    \/ path \in HealthPaths
    \/ b = "version" /\ path = "/__version"
    \/ LiteralAt(path, 1, "/oauth/")
    \/ LiteralAt(path, 1, "/auth/")
    \/ path = "/callback"

\* the path of a request target, read off the target character by character
PathOf(url) ==
    IF \E q \in 1..Len(url) : CharAt(url, q) = "?"
    THEN LET q == CHOOSE n \in 1..Len(url) :
                      /\ CharAt(url, n) = "?"
                      /\ \A m \in 1..(n - 1) : CharAt(url, m) # "?"
         IN  SubSeq(url, 1, q - 1)
    ELSE url

Credential == "Bearer " \o env.STATIC_BEARER_TOKEN

\* what the gate owes a request to a closed path
GateOutcome(req, resp) ==
    IF req.auth = Credential
    THEN /\ resp.by \in {"loginLink", "proxy"}
         /\ resp.status # 401
         /\ resp.chain[1] = "gate"
    ELSE /\ resp.status = 401
         /\ "error" \in DOMAIN resp.body
         /\ resp.chain = <<"gate">>

(***************************************************************************)
(* C1  For every request whose path is not in the open set: if the         *)
(* Authorization header is absent or not exactly "Bearer " + token, the    *)
(* response is 401 with an `error` field and the request reaches neither   *)
(* the /login-link handler nor the proxy; if it is exactly equal, the      *)
(* request passes the gate and is handled or forwarded.                    *)
(***************************************************************************)
C1_AuthGate ==
    /\ Serving =>
         \A req \in Requests :
            ~ InOpenSet(build, PathOf(req.url)) => GateOutcome(req, Handle(req))
    /\ (lastReq # <<>> /\ ~ InOpenSet(build, PathOf(lastReq[1].url)))
         => GateOutcome(lastReq[1], lastResp)

\* a request with the wrong token was rejected
C1_Witness ==
    /\ lastReq = <<Req("POST", "/mcp", "Bearer other")>>
    /\ lastResp.status = 401
    /\ latestLoginUrl # Null

(***************************************************************************)
(* C2  For every path p of the open set, isOpenPath(p) is true whatever    *)
(* the Authorization header is, and a request to p with any method and     *)
(* any or no Authorization header never receives 401.                      *)
(***************************************************************************)
C2_OpenSetNever401 ==
    /\ Serving =>
         \A req \in Requests :
            InOpenSet(build, PathOf(req.url))
               => /\ IsOpen(build, PathOf(req.url))
                  /\ Handle(req).status # 401
    /\ (lastReq # <<>> /\ InOpenSet(build, PathOf(lastReq[1].url)))
         => lastResp.status # 401

(***************************************************************************)
(* C3  GET /healthz with no headers always returns {ok:true} with a        *)
(* 200-class status, whatever the cache holds, and /healthz/ gets the      *)
(* same decision and the same response.                                    *)
(***************************************************************************)
OkTrue(resp) ==
    /\ resp.by = "health"
    /\ resp.status \in 200..299
    /\ DOMAIN resp.body = {"ok"}
    /\ resp.body.ok = TRUE

C3_Healthz ==
    /\ Serving =>
         /\ \A p \in HealthPaths : OkTrue(Handle(Req("GET", p, Undefined)))
         /\ Handle(Req("GET", "/healthz/", Undefined))
               = Handle(Req("GET", "/healthz", Undefined))
    /\ \A p \in HealthPaths :
          lastReq = <<Req("GET", p, Undefined)>> => OkTrue(lastResp)

\* the trailing-slash probe was answered while the cache held a URL
C3_Witness ==
    /\ lastReq = <<Req("GET", "/healthz/", Undefined)>>
    /\ lastResp.status = 200
    /\ latestLoginUrl # Null

(***************************************************************************)
(* The capture history                                                     *)
(***************************************************************************)
\* the "data" events whose chunk held at least one URL
UrlEvents == {n \in 1..Len(processed) : ContainsUrl(processed[n].chunk)}

LastUrlEvent == CHOOSE n \in UrlEvents : \A m \in UrlEvents : m <= n

LoginLinkReq == Req("GET", "/login-link", Credential)

(***************************************************************************)
(* C4  An authorized GET /login-link returns the not-found response (404   *)
(* with `error` and `hint`) if and only if no chunk containing a URL has   *)
(* been processed by the capture callback yet; otherwise it returns the    *)
(* currently recorded URL as login_url and its recorded timestamp as       *)
(* seen_at, both non-empty and unmodified.                                 *)
(***************************************************************************)
NotFound(resp) ==
    /\ resp.status = 404
    /\ {"error", "hint"} \subseteq DOMAIN resp.body

Found(resp, url, seenAt) ==
    /\ resp.status = 200
    /\ DOMAIN resp.body = {"login_url", "seen_at"}
    /\ resp.body.login_url = url
    /\ resp.body.seen_at = seenAt
    /\ url \notin {Null, Undefined, ""}
    /\ seenAt \notin {Null, Undefined, ""}

C4_LoginLink ==
    /\ Serving =>
         LET resp == Handle(LoginLinkReq)
         IN  /\ resp.by = "loginLink"
             /\ NotFound(resp) <=> UrlEvents = {}
             /\ UrlEvents # {}
                  => Found(resp, latestLoginUrl, latestLoginUrlSeenAt)
    /\ (lastReq = <<LoginLinkReq>> /\ UrlEvents = {}) => NotFound(lastResp)
    /\ (lastReq = <<LoginLinkReq>> /\ ~ NotFound(lastResp))
         => \E n \in UrlEvents :
               /\ lastResp.status = 200
               /\ lastResp.body.login_url = Last(UrlsOf(processed[n].chunk))
               /\ lastResp.body.seen_at = toISOString(n)

\* the query was answered with the URL of the spec's example chunk
C4_Witness ==
    /\ lastReq = <<LoginLinkReq>>
    /\ lastResp.status = 200
    /\ lastResp.body.login_url = "https://id.example/auth?state=1"
    /\ lastResp.body.seen_at # ""

(***************************************************************************)
(* C5  Last-write-wins: after any sequence of chunks has been processed,   *)
(* the record holds exactly the last match of the most recently processed  *)
(* chunk that contained a URL; earlier matches of that chunk and every     *)
(* match of earlier chunks are discarded.                                  *)
(***************************************************************************)
C5_LastWriteWins ==
    IF UrlEvents = {}
    THEN latestLoginUrl = Null
    ELSE latestLoginUrl = Last(UrlsOf(processed[LastUrlEvent].chunk))

\* two chunks with different URLs, the second one with two matches
C5_Witness ==
    /\ Len(processed) = 2
    /\ processed[1].chunk = "Login at https://id.example/auth?state=1 please"
    /\ processed[2].chunk = "see https://a.example/x and https://b.example/y?q=1"
    /\ latestLoginUrl = "https://b.example/y?q=1"

(***************************************************************************)
(* C6  When the child exits, with any exit code or by a signal, the        *)
(* gateway process terminates, and once the exit event has been handled    *)
(* no request is served and no chunk is captured.                          *)
(***************************************************************************)
C6_ChildExitIsFatal ==
    /\ [](child = "reaped" => (pc = "exited" /\ exitStatus # <<>>))
    /\ [][child = "reaped"
            => UNCHANGED <<pc, lastReq, lastResp, processed, latestLoginUrl,
                           latestLoginUrlSeenAt, gwStdout, gwStderr>>]_vars
    /\ (child = "exited" ~> pc = "exited")

\* the gateway ended on a signal-killed child after serving and capturing
C6_Witness ==
    /\ pc = "exited"
    /\ child = "reaped"
    /\ childExit[1].codeIsNull
    /\ lastReq # <<>>
    /\ Len(processed) > 0

(***************************************************************************)
(* C7  Whenever the child terminates, the gateway terminates with a        *)
(* non-zero exit status: the child's own exit code when there is one,      *)
(* otherwise a default non-zero status.                                    *)
(***************************************************************************)
C7_NonZeroExitStatus ==
    pc = "exited" =>
        /\ exitStatus[1] # 0
        /\ ~ childExit[1].codeIsNull => exitStatus[1] = childExit[1].code

(***************************************************************************)
(* C8  Startup fails fast on configuration errors.                         *)
(***************************************************************************)
EndpointMissing ==
    /\ env.ROVO_MCP_URL \in {Undefined, ""}
    /\ env.ROVO_MCP_SSE_URL \in {Undefined, ""}

CredentialMissing == env.STATIC_BEARER_TOKEN \in {Undefined, ""}

BaseUrlMissing == env.PUBLIC_BASE_URL \in {Undefined, ""}

\* the process failed at startup: no child, never listening
FailedAtStartup ==
    /\ pc \in {"config", "crashed"}
    /\ spawnCount = 0
    /\ child = "none"
    /\ pc = "crashed" => (exitStatus # <<>> /\ exitStatus[1] # 0)

\* C8 as stated: a missing or empty PUBLIC_BASE_URL, STATIC_BEARER_TOKEN or
\* upstream endpoint URL (under both of its names) fails the process before
\* the spawn and before listening; the credential is non-empty whenever a
\* request is served
C8_AsStated ==
    /\ (BaseUrlMissing \/ CredentialMissing \/ EndpointMissing)
          => FailedAtStartup
    /\ Serving => STATIC_BEARER_TOKEN \notin {Undefined, Null, ""}

\* C8 amended: a missing or empty PUBLIC_BASE_URL or STATIC_BEARER_TOKEN
\* fails the process before the spawn and before listening; the upstream
\* endpoint URL is optional and, missing under both names, is replaced by
\* the built-in default; the credential is non-empty whenever a request is
\* served
C8_FailFast ==
    /\ (BaseUrlMissing \/ CredentialMissing) => FailedAtStartup
    /\ (EndpointMissing /\ pc \notin {"config", "crashed"})
          => ROVO_MCP_URL = "https://mcp.atlassian.com/v1/mcp"
    /\ Serving => /\ STATIC_BEARER_TOKEN \notin {Undefined, Null, ""}
                  /\ STATIC_BEARER_TOKEN = env.STATIC_BEARER_TOKEN

\* an empty credential stopped the process before the spawn
C8_Witness ==
    /\ env.STATIC_BEARER_TOKEN = ""
    /\ pc = "crashed"
    /\ spawnCount = 0

(***************************************************************************)
(* C9  Over the whole lifetime of the gateway exactly one child is         *)
(* spawned, at startup; after the child exits or fails to spawn there is   *)
(* no second spawn.                                                        *)
(***************************************************************************)
C9_SingleSpawn ==
    /\ [](spawnCount <= 1)
    /\ []((pc \in {"listen", "running", "exited"} \/ child # "none")
             => spawnCount = 1)
    /\ [][spawnCount' # spawnCount => (pc = "spawn" /\ spawnCount = 0)]_vars

\* the child has exited, or never started, and the count is still one
C9_Witness ==
    /\ spawnCount = 1
    /\ child = "failed"
    /\ pc = "crashed"

(***************************************************************************)
(* The chunks the handlers have received, per stream                       *)
(***************************************************************************)
RECURSIVE ChunksOn(_, _)
ChunksOn(events, stream) ==
    IF events = <<>> THEN <<>>
    ELSE LET rest == ChunksOn(Tail(events), stream)
         IN  IF Head(events).stream = stream
             THEN <<Head(events).chunk>> \o rest
             ELSE rest

RECURSIVE Concat(_)
Concat(chunks) ==
    IF chunks = <<>> THEN "" ELSE Head(chunks) \o Concat(Tail(chunks))

RecordPair == <<latestLoginUrl, latestLoginUrlSeenAt>>

\* the pair the n-th data event wrote
WrittenBy(n) == <<Last(UrlsOf(processed[n].chunk)), toISOString(n)>>

BodyPair(resp) == <<resp.body.login_url, resp.body.seen_at>>

\* a step that handles a request
RequestStep == <<lastReq, lastResp>>' # <<lastReq, lastResp>>

C12_AtomicRead ==
    /\ [](RecordPair = IF UrlEvents = {} THEN <<Null, Null>>
                       ELSE WrittenBy(LastUrlEvent))
    /\ []((Serving /\ UrlEvents # {})
            => BodyPair(Handle(LoginLinkReq)) = WrittenBy(LastUrlEvent))
    /\ []((lastReq = <<LoginLinkReq>> /\ lastResp.status = 200)
            => \E n \in UrlEvents : BodyPair(lastResp) = WrittenBy(n))
    /\ [][(RequestStep /\ lastReq' = <<LoginLinkReq>> /\ UrlEvents # {})
            => /\ lastResp'.status = 200
               /\ BodyPair(lastResp') = WrittenBy(LastUrlEvent)]_vars

\* a read after two captures, one per stream, returns the second one's pair
C12_Witness ==
    /\ Len(processed) = 2
    /\ processed[1].stream # processed[2].stream
    /\ UrlEvents = {1, 2}
    /\ lastReq = <<LoginLinkReq>>
    /\ lastResp.status = 200
    /\ BodyPair(lastResp) = WrittenBy(2)
    /\ WrittenBy(1)[1] # WrittenBy(2)[1]

(***************************************************************************)
(* C14  Processing a chunk in which there is no URL leaves the Login-Link  *)
(* Record unchanged: the recorded URL and the recorded timestamp keep      *)
(* their values (or both stay absent); a noise chunk after a login URL     *)
(* neither clears nor re-stamps it.                                        *)
(***************************************************************************)
\* a step that processes one more chunk, and that chunk has no URL
NoiseStep ==
    /\ Len(processed') = Len(processed) + 1
    /\ ~ ContainsUrl(Last(processed').chunk)

C14_NoiseKeepsRecord ==
    [][NoiseStep => UNCHANGED <<latestLoginUrl, latestLoginUrlSeenAt>>]_vars

\* a noise chunk came after the login URL, which keeps its first timestamp
C14_Witness ==
    /\ Len(processed) = 2
    /\ processed[1].chunk = "Login at https://id.example/auth?state=1 please"
    /\ processed[2] = [stream |-> "stdout", chunk |-> "starting up\n"]
    /\ latestLoginUrl = "https://id.example/auth?state=1"
    /\ latestLoginUrlSeenAt = toISOString(1)

(***************************************************************************)
(* C15  Request handling never mutates gateway state: a request rejected   *)
(* with 401, a /healthz request and a /login-link query leave the          *)
(* Login-Link Record and the child-process lifecycle unchanged, and after  *)
(* rejected requests a request with the exact credential is still served.  *)
(***************************************************************************)
CredentialedRequests == {req \in Requests : req.auth = Credential}

C15_RequestsAreReadOnly ==
    /\ [][RequestStep
            => UNCHANGED <<latestLoginUrl, latestLoginUrlSeenAt, child,
                           childExit, spawnCount, listeners, pc, exitStatus,
                           processed, gwStdout, gwStderr, STATIC_BEARER_TOKEN,
                           ROVO_MCP_URL>>]_vars
    /\ []((Serving /\ lastReq # <<>>)
            => \A req \in CredentialedRequests :
                  /\ Handle(req).status # 401
                  /\ Handle(req).by \in {"health", "loginLink", "proxy"})

\* the last request was rejected; the record and the child are as they were
\* and the login link is still served
C15_Witness ==
    /\ lastReq # <<>>
    /\ lastResp.status = 401
    /\ child = "running"
    /\ latestLoginUrl = "https://b.example/y?q=1"
    /\ Handle(LoginLinkReq).status = 200

(***************************************************************************)
(* C17  The recorded URL and the recorded timestamp are either both absent *)
(* or both present, and presence is monotonic: once a URL is recorded the  *)
(* record never becomes absent again, so once an authorized GET            *)
(* /login-link has returned a URL no later one returns 404.                *)
(***************************************************************************)
C17_PresenceMonotonic ==
    /\ [](latestLoginUrl = Null <=> latestLoginUrlSeenAt = Null)
    /\ [](latestLoginUrl # Null
            => (~ Falsy(latestLoginUrl) /\ ~ Falsy(latestLoginUrlSeenAt)))
    /\ [][latestLoginUrl # Null => latestLoginUrl' # Null]_vars
    /\ []((lastReq = <<LoginLinkReq>> /\ lastResp.status = 200)
            => latestLoginUrl # Null)
    /\ []((Serving /\ latestLoginUrl # Null)
            => Handle(LoginLinkReq).status = 200)

\* the URL was returned, then a noise chunk arrived on stderr, and the URL
\* is still there
C17_Witness ==
    /\ lastReq = <<LoginLinkReq>>
    /\ lastResp.status = 200
    /\ lastResp.body.seen_at = toISOString(1)
    /\ Len(processed) = 2
    /\ processed[2] = [stream |-> "stderr", chunk |-> "starting up\n"]
    /\ Handle(LoginLinkReq) = lastResp

(***************************************************************************)
(* C18  Startup ordering: the child is spawned and its stdout, stderr and  *)
(* exit handlers are attached before the gateway starts listening, so no   *)
(* request is handled in a state where the child has not been spawned or   *)
(* where a child exit would go unobserved.                                 *)
(***************************************************************************)
AllHandlers == {"stdout", "stderr", "exit"}

C18_SpawnBeforeListen ==
    /\ [](pc = "running"
            => (spawnCount = 1 /\ child # "none" /\ listeners = AllHandlers))
    /\ [][(pc # "running" /\ pc' = "running")
            => (spawnCount = 1 /\ child # "none"
                  /\ listeners = AllHandlers)]_vars
    /\ [][RequestStep
            => /\ spawnCount = 1
               /\ child \in {"running", "exited"}
               /\ AllHandlers \subseteq listeners]_vars
    /\ [](lastReq # <<>> => (spawnCount = 1 /\ "exit" \in listeners))

\* a request was handled while the child's exit event was still pending
C18_Witness ==
    /\ lastReq # <<>>
    /\ child = "exited"
    /\ pc = "running"
    /\ listeners = AllHandlers
    /\ spawnCount = 1

(***************************************************************************)
(* C13  isOpenPath(path) is true if and only if path is one of the exact   *)
(* open paths (/oauth/callback, /auth/callback, /callback, plus the health *)
(* and version paths where the classifier lists them) or begins with       *)
(* /oauth/ or /auth/; it is closed for every other path, near-misses such  *)
(* as /oauth, /auth, /oauthx, /callback/ and /callback/x included; and the *)
(* decision depends on the path only, not on the query string, the method  *)
(* or a header.                                                            *)
(***************************************************************************)
ExactOpen(b) ==
    {"/oauth/callback", "/auth/callback", "/callback"}
        \cup (IF b = "sse_gate_first" THEN {"/healthz"} ELSE {})
        \cup (IF b = "version" THEN {"/healthz", "/__version"} ELSE {})

OpenAsWorded(b, path) ==
    \/ path \in ExactOpen(b)
    \/ LiteralAt(path, 1, "/oauth/")
    \/ LiteralAt(path, 1, "/auth/")

NearMisses == {"/oauth", "/auth", "/oauthx", "/callback/", "/callback/x"}

C13_IsOpenPath ==
    \A n \in 1..Len(results) :
        /\ results[n] = OpenAsWorded(build, PathOf(input.url))
        /\ PathOf(input.url) \in NearMisses => results[n] = FALSE
        /\ \A other \in ClassifierInputs :
              PathOf(other.url) = PathOf(input.url)
                 => IsOpen(build, ReqPath(other.url)) = results[n]

\* an open path under a query string, asked for by POST without a header
C13_Witness ==
    /\ input = Req("POST", "/callback?code=1", Undefined)
    /\ results = <<TRUE, TRUE>>

(***************************************************************************)
(* C16  Chunks of the two child streams feed one shared record in the      *)
(* order their callbacks run: under every interleaving of stdout and       *)
(* stderr deliveries the record is the last match of the URL-bearing chunk *)
(* processed last, whatever its stream, and the chunks of one stream are   *)
(* processed in the order the child wrote them (FIFO per stream).          *)
(***************************************************************************)
Pipe(stream) == IF stream = "stdout" THEN pipeOut ELSE pipeErr

C16_SharedRecord ==
    /\ latestLoginUrl = IF UrlEvents = {} THEN Null
                        ELSE Last(UrlsOf(processed[LastUrlEvent].chunk))
    /\ \A stream \in Streams :
          ChunksOn(processed, stream) \o Pipe(stream)
             = ChunksOn(written, stream)
    /\ Len(processed) <= Len(written)

\* stderr was written first and processed last: the record is the stderr URL
C16_Witness ==
    /\ written =
         << [stream |-> "stderr",
             chunk |-> "Login at https://id.example/auth?state=1 please"],
            [stream |-> "stdout",
             chunk |-> "see https://a.example/x and https://b.example/y?q=1"] >>
    /\ processed = <<written[2], written[1]>>
    /\ latestLoginUrl = "https://id.example/auth?state=1"

(***************************************************************************)
(* C19  Capture is strictly per chunk: the recorded URL, when present, is  *)
(* a non-empty string equal to an element of extractUrls(c) for one single *)
(* delivered chunk c; text is never joined across chunks, so a URL split   *)
(* over two consecutive chunks is never recorded whole.                    *)
(***************************************************************************)
Elements(seq) == {seq[k] : k \in 1..Len(seq)}

\* the URLs that stand whole in one delivered chunk
DeliveredUrls ==
    UNION {Elements(UrlsOf(processed[n].chunk)) : n \in 1..Len(processed)}

\* the URLs that only appear when a delivered chunk and the one delivered
\* right after it are put together
SplitUrls ==
    UNION {Elements(UrlsOf(processed[n].chunk \o processed[n + 1].chunk)) :
              n \in 1..(Len(processed) - 1)}
        \ DeliveredUrls

C19_PerChunk ==
    /\ latestLoginUrl # Null
          => (latestLoginUrl # "" /\ latestLoginUrl \in DeliveredUrls)
    /\ latestLoginUrl \notin SplitUrls

\* the login URL came in two pieces: its first piece alone is recorded
C19_Witness ==
    /\ processed =
         << [stream |-> "stderr", chunk |-> "Login at https://id.exa"],
            [stream |-> "stderr", chunk |-> "mple/auth?state=1 please"] >>
    /\ "https://id.example/auth?state=1" \in SplitUrls
    /\ latestLoginUrl = "https://id.exa"

====
